---- MODULE Spec2Model ----
(***************************************************************************)
(* The connection / presence / fanout core of SocketChat's backend         *)
(* (src/src/server.ts with src/src/services/client.ts): Spec, and of the   *)
(* mock server the frontend is developed against: MockSpec.                *)
(*                                                                         *)
(* Node runs one handler at a time; a handler gives up control only at an  *)
(* `await`.  Each action below is therefore one run-to-completion segment  *)
(* of a handler: from its start (or from the reply it awaited) to its end  *)
(* (or to its next await).  The Redis client is one connection, so its     *)
(* commands are served and answered in the order they were issued: redisQ  *)
(* holds the commands whose reply has not arrived, each with the result    *)
(* the store gave it.                                                      *)
(*                                                                         *)
(* Time is counted in ticks of TickSeconds, the greatest common divisor of *)
(* the key's expiry (EX) and the sweep period.  Within one instant the     *)
(* expiry of a key, the firing of the sweep timer and the handlers may     *)
(* come in any order, which is what real-valued time allows.  A Redis      *)
(* round trip is short against a tick: time does not advance while a       *)
(* command is in flight.                                                   *)
(***************************************************************************)
EXTENDS Integers, Sequences, FiniteSets, TLC

\* ---------------------------------------------------------------- bounds
MaxConns == 2         \* connections accepted in one behaviour
MaxInFlight == 1      \* HEARTBEAT handlers awaiting their SET at one time
MaxParticipants == 2  \* length of a stored conversation's participant list

\* ------------------------------------------------------------- constants
EX == 10              \* seconds: redisClient.set(..., { EX: 10 })
SweepMs == 5000       \* milliseconds: setInterval(..., 5000)

RECURSIVE GCD(_, _)
GCD(a, b) == IF b = 0 THEN a ELSE GCD(b, a % b)

SweepSeconds == SweepMs \div 1000
TickSeconds == GCD(EX, SweepSeconds)
WindowTicks == EX \div TickSeconds
SweepTicks == SweepSeconds \div TickSeconds
QuietCap == WindowTicks + SweepTicks

Users == {"u1", "u2"}
NoUser == "null"      \* searchParams.get("userId") of a URL without it
Conns == 1..MaxConns
Absent == -1          \* no key user:<id>:online in the store

VARIABLES
  sock,        \* readyState of each accepted WebSocket ("NONE": not yet accepted)
  connUser,    \* the userId each connection was opened with
  clients,     \* Map<string, Client>, in insertion order
  presence,    \* Map<string, "ONLINE" | "OFFLINE">; "NONE": no entry
  ttl,         \* the store: ticks until user:<id>:online expires, or Absent
  redisQ,      \* commands issued and not yet answered, oldest first
  sweepTimer,  \* ticks until the interval timer fires
  sweepCursor, \* entries of clients.keys() the running sweep has passed; -1: idle
  crashed,     \* the process has exited
  quiet,       \* ticks since the user's last connect or HEARTBEAT frame
  demotions,   \* PRESENCE_UPDATEs the sweep broadcast for the user since it was last ONLINE
  timers,      \* mock server only: setTimeout callbacks not yet run
  op,          \* the handler segment that ran last
  out          \* what that segment passed to socket.send, in order

vars == <<sock, connUser, clients, presence, ttl, redisQ, sweepTimer, sweepCursor,
          crashed, quiet, demotions, timers, op, out>>

\* ------------------------------------------------------------ Map helpers
Has(m, u) == \E i \in DOMAIN m : m[i].userId = u
IndexOf(m, u) == CHOOSE i \in DOMAIN m : m[i].userId = u
Get(m, u) == m[IndexOf(m, u)].conn

\* A registry that keeps the first handle of an identity.
MapSetKeepsFirst(m, u, c) ==
  IF Has(m, u) THEN m ELSE Append(m, [userId |-> u, conn |-> c])

MapSet(m, u, c) ==
  IF Has(m, u) THEN [m EXCEPT ![IndexOf(m, u)].conn = c]
  ELSE Append(m, [userId |-> u, conn |-> c])

MapDelete(m, u) ==
  LET Keep(e) == e.userId # u IN SelectSeq(m, Keep)

\* A live iterator over clients.keys(): deleting an entry it has already
\* passed moves every later entry, and the iterator with them, one place down.
CursorAfterDelete(m, u, cur) ==
  IF cur >= 0 /\ Has(m, u) /\ IndexOf(m, u) <= cur THEN cur - 1 ELSE cur

\* ------------------------------------------------------------------ sends
NoOp == [name |-> "init", conn |-> 0, userId |-> NoUser, frame |-> "",
         status |-> 0, threw |-> FALSE]

Snapshot(pres) == {u \in Users : pres[u] = "ONLINE"}

\* Client.send: socket.send only if the socket is OPEN.
Writable(c) == sock[c] = "OPEN"

\* The connections a forEach over `entries` calls socket.send on, in order.
SendTargets(entries) ==
  LET Open(e) == Writable(e.conn)
      kept == SelectSeq(entries, Open)
  IN  [i \in DOMAIN kept |-> kept[i].conn]

\* k = 0: no send throws; k > 0: the k-th socket.send throws, and the
\* exception leaves the forEach.
ThrowChoices(targets) == 0..Len(targets)

Delivered(targets, k) == IF k = 0 THEN targets ELSE SubSeq(targets, 1, k - 1)

broadcastPresence(pres, k) ==
  LET done == Delivered(SendTargets(clients), k)
  IN  [i \in DOMAIN done |->
         [conn |-> done[i], type |-> "PRESENCE_UPDATE", onlineUsers |-> Snapshot(pres)]]

\* ------------------------------------------------------------------- Init
Init ==
  /\ sock = [c \in Conns |-> "NONE"]
  /\ connUser = [c \in Conns |-> NoUser]
  /\ clients = <<>>
  /\ presence = [u \in Users |-> "NONE"]
  /\ ttl = [u \in Users |-> Absent]
  /\ redisQ = <<>>
  /\ sweepTimer = SweepTicks
  /\ sweepCursor = -1
  /\ crashed = FALSE
  /\ quiet = [u \in Users |-> QuietCap]
  /\ demotions = [u \in Users |-> 0]
  /\ timers = 0
  /\ op = NoOp
  /\ out = <<>>

\* ------------------------------------------------- wss.on("connection")
FreshConn == CHOOSE c \in Conns : sock[c] = "NONE" /\ \A d \in Conns : d < c => sock[d] # "NONE"

\* clients.set(userId, client)
Register(u, c) == MapSet(clients, u, c)

\* socket.close(4000, "Missing userId")
MissingUserId == 4000

\* if (!userId) { socket.close(4000, "Missing userId"); return; }: a socket
\* opened without a userId is closed at once and no listener is attached to
\* it, so the server keeps nothing of it: it takes no place among Conns, and
\* op.status records the close code it was sent.
Connect(u) ==
  /\ ~crashed
  /\ IF u = NoUser
       THEN /\ op' = [NoOp EXCEPT !.name = "connect", !.status = MissingUserId]
            /\ UNCHANGED <<connUser, sock, clients, quiet>>
       ELSE /\ \E c \in Conns : sock[c] = "NONE"
            /\ LET c == FreshConn IN
                 /\ connUser' = [connUser EXCEPT ![c] = u]
                 /\ sock' = [sock EXCEPT ![c] = "OPEN"]
                 /\ clients' = Register(u, c)
                 /\ quiet' = [quiet EXCEPT ![u] = 0]
                 /\ op' = [NoOp EXCEPT !.name = "connect", !.conn = c, !.userId = u]
  /\ out' = <<>>
  /\ UNCHANGED <<presence, ttl, redisQ, sweepTimer, sweepCursor, crashed, demotions, timers>>

\* ---------------------------------------------------- socket.on("message")
Null == [isNull |-> TRUE]
Frames == {"not json", "null", "{type:HEARTBEAT}", "{type:REGISTER}", "{type:TYPING}"}

\* JSON.stringify({ type: "REGISTER", userId: u })
RegisterFrame(u) == "{type:REGISTER,userId:" \o u \o "}"

\* JSON.parse(data.toString()): the parsed value, or that it threw.
JSONParse(frame) ==
  CASE frame = "not json" -> [threw |-> TRUE, value |-> Null]
    [] frame = "null" -> [threw |-> FALSE, value |-> Null]
    [] frame = "{type:HEARTBEAT}" -> [threw |-> FALSE, value |-> [isNull |-> FALSE, type |-> "HEARTBEAT"]]
    [] frame = "{type:REGISTER}" -> [threw |-> FALSE, value |-> [isNull |-> FALSE, type |-> "REGISTER"]]
    [] frame = "{type:TYPING}" -> [threw |-> FALSE, value |-> [isNull |-> FALSE, type |-> "TYPING"]]
    [] \E u \in Users : frame = RegisterFrame(u) ->
         [threw |-> FALSE,
          value |-> [isNull |-> FALSE, type |-> "REGISTER",
                     userId |-> CHOOSE u \in Users : frame = RegisterFrame(u)]]

\* A handler that takes every typed frame for a heartbeat.
IsAnyTypedFrame(frame) ==
  LET r == JSONParse(frame)
  IN  ~r.threw /\ ~r.value.isNull

\* parsed?.type === "HEARTBEAT", reached only when JSON.parse returned
IsHeartbeat(frame) ==
  LET r == JSONParse(frame)
  IN  ~r.threw /\ ~r.value.isNull /\ r.value.type = "HEARTBEAT"

\* The store and its one connection.  The store executes a command when it
\* receives it and answers later.  Commands travel in the order they were
\* issued, no handler reads a key except through a reply, and time does not
\* advance while a command is in flight, so every placement of a command's
\* execution between its issue and its reply yields the same replies as the
\* earliest one: the execution is placed at the issue, and the reply is a
\* step of its own (RedisReply).  A command that never reaches the store
\* changes nothing and its promise rejects (RedisFail).
SetResult(reached) == IF reached THEN "OK" ELSE "ERR"

\* EXISTS key: 1 if the key is there, 0 if it is not
ExistsResult(u) == IF ttl[u] # Absent THEN "1" ELSE "0"

InFlight == Len(SelectSeq(redisQ, LAMBDA q : q.cmd = "SET"))

Message(c, frame) ==
  /\ ~crashed
  /\ sock[c] = "OPEN"
  /\ LET u == connUser[c] IN
       /\ IF IsHeartbeat(frame)
            THEN \* up to the await of redisClient.set
                 /\ InFlight < MaxInFlight
                 /\ \E reached \in BOOLEAN :
                      /\ redisQ' = Append(redisQ, [cmd |-> "SET", userId |-> u,
                                                   result |-> SetResult(reached)])
                      /\ ttl' = IF reached THEN [ttl EXCEPT ![u] = WindowTicks] ELSE ttl
                 /\ quiet' = [quiet EXCEPT ![u] = 0]
            ELSE UNCHANGED <<redisQ, quiet, ttl>>
       /\ op' = [NoOp EXCEPT !.name = "message", !.conn = c, !.userId = u, !.frame = frame]
  /\ out' = <<>>
  /\ UNCHANGED <<sock, connUser, clients, presence, sweepTimer, sweepCursor,
                 crashed, demotions, timers>>

\* ------------------------------------------------------ socket.on("close")
\* The peer, or the network, starts closing: readyState leaves OPEN before
\* the close event is emitted.
StartClose(c) ==
  /\ ~crashed
  /\ sock[c] = "OPEN"
  /\ sock' = [sock EXCEPT ![c] = "CLOSING"]
  /\ op' = [NoOp EXCEPT !.name = "closing", !.conn = c, !.userId = connUser[c]]
  /\ out' = <<>>
  /\ UNCHANGED <<connUser, clients, presence, ttl, redisQ, sweepTimer, sweepCursor,
                 crashed, quiet, demotions, timers>>

Close(c) ==
  /\ ~crashed
  /\ sock[c] = "CLOSING"
  /\ sock' = [sock EXCEPT ![c] = "CLOSED"]
  /\ clients' = MapDelete(clients, connUser[c])
  /\ sweepCursor' = CursorAfterDelete(clients, connUser[c], sweepCursor)
  /\ op' = [NoOp EXCEPT !.name = "close", !.conn = c, !.userId = connUser[c]]
  /\ out' = <<>>
  /\ UNCHANGED <<connUser, presence, ttl, redisQ, sweepTimer, crashed, quiet, demotions, timers>>

\* ------------------------------------------------ setInterval(..., 5000)
\* The for-of loop's next step: await exists() on the next key, or finish.
SweepNext(q, cur) ==
  IF cur < Len(clients)
    THEN /\ redisQ' = Append(q, [cmd |-> "EXISTS", userId |-> clients[cur + 1].userId,
                                  result |-> ExistsResult(clients[cur + 1].userId)])
         /\ sweepCursor' = cur + 1
    ELSE /\ redisQ' = q
         /\ sweepCursor' = -1

SweepFire ==
  /\ ~crashed
  /\ sweepTimer = 0
  /\ sweepCursor = -1
  /\ sweepTimer' = SweepTicks
  /\ SweepNext(redisQ, 0)
  /\ op' = [NoOp EXCEPT !.name = "sweepFire"]
  /\ out' = <<>>
  /\ UNCHANGED <<sock, connUser, clients, presence, ttl, crashed, quiet, demotions, timers>>

\* A rejected promise nobody handles: the process goes on (a warning) or
\* exits, depending on the runtime's unhandled-rejections mode.
Outcomes(k) == IF k = 0 THEN {"returned"} ELSE {"warned", "exited"}

\* The process has exited: its maps, timers and sockets are gone; the
\* store keeps its keys.
Exit ==
  /\ crashed' = TRUE
  /\ sock' = [c \in Conns |-> IF sock[c] = "NONE" THEN "NONE" ELSE "CLOSED"]
  /\ clients' = <<>>
  /\ presence' = [u \in Users |-> "NONE"]
  /\ redisQ' = <<>>
  /\ sweepCursor' = -1
  /\ demotions' = [u \in Users |-> 0]

\* !isOnline && presence.get(userId) !== "OFFLINE"
\* isOnline is what the store answered, the answer at the head of redisQ.
SweepDemotes(u) == Head(redisQ).result = "0" /\ presence[u] # "OFFLINE"

\* The sweep, from the reply to exists(userId) to its next await.
SweepResume(u) ==
  /\ UNCHANGED ttl
  /\ IF SweepDemotes(u)
       THEN LET pres == [presence EXCEPT ![u] = "OFFLINE"] IN
            \E k \in ThrowChoices(SendTargets(clients)) : \E how \in Outcomes(k) :
              /\ out' = broadcastPresence(pres, k)
              /\ op' = [NoOp EXCEPT !.name = "sweepStep", !.userId = u, !.threw = (k # 0)]
              /\ IF how = "exited" THEN Exit
                 ELSE /\ presence' = pres
                      /\ demotions' = [demotions EXCEPT ![u] = IF @ < 2 THEN @ + 1 ELSE @]
                      /\ UNCHANGED <<sock, clients, crashed>>
                      /\ IF k = 0
                           THEN SweepNext(Tail(redisQ), sweepCursor)
                           ELSE redisQ' = Tail(redisQ) /\ sweepCursor' = -1
       ELSE /\ UNCHANGED <<presence, demotions, crashed, sock, clients>>
            /\ out' = <<>>
            /\ op' = [NoOp EXCEPT !.name = "sweepStep", !.userId = u]
            /\ SweepNext(Tail(redisQ), sweepCursor)

\* The HEARTBEAT handler, from the reply to set() to its end.
HeartbeatResume(u) ==
  /\ UNCHANGED ttl
  /\ LET pres == [presence EXCEPT ![u] = "ONLINE"] IN
     \E k \in ThrowChoices(SendTargets(clients)) : \E how \in Outcomes(k) :
       /\ out' = broadcastPresence(pres, k)
       /\ op' = [NoOp EXCEPT !.name = "heartbeatDone", !.userId = u, !.threw = (k # 0)]
       /\ IF how = "exited" THEN Exit
          ELSE /\ presence' = pres
               /\ demotions' = [demotions EXCEPT ![u] = 0]
               /\ redisQ' = Tail(redisQ)
               /\ UNCHANGED <<sock, clients, crashed, sweepCursor>>

\* The reply to the oldest command arrives.
RedisReply ==
  /\ ~crashed
  /\ redisQ # <<>>
  /\ Head(redisQ).result # "ERR"
  /\ LET q == Head(redisQ) IN
       IF q.cmd = "SET" THEN HeartbeatResume(q.userId) ELSE SweepResume(q.userId)
  /\ UNCHANGED <<connUser, sweepTimer, quiet, timers>>

\* The store is unreachable: the oldest command's promise rejects, the
\* handler awaiting it ends there, and nothing catches the rejection.  A
\* rejected set() is one that did not reach the store.
RedisFail ==
  /\ ~crashed
  /\ redisQ # <<>>
  /\ Head(redisQ).cmd = "EXISTS" \/ Head(redisQ).result = "ERR"
  /\ LET q == Head(redisQ) IN
       /\ op' = [NoOp EXCEPT !.name = "redisFail", !.userId = q.userId, !.frame = q.cmd,
                             !.threw = TRUE]
       /\ \E how \in Outcomes(1) :
            IF how = "exited" THEN Exit
            ELSE /\ redisQ' = Tail(redisQ)
                 /\ sweepCursor' = IF q.cmd = "EXISTS" THEN -1 ELSE sweepCursor
                 /\ UNCHANGED <<sock, clients, presence, crashed, demotions>>
  /\ out' = <<>>
  /\ UNCHANGED <<connUser, ttl, sweepTimer, quiet, timers>>

\* ------------------------------------------------------------------- time
Tick ==
  /\ ~crashed
  /\ sweepTimer > 0
  /\ sweepCursor = -1
  /\ redisQ = <<>>
  /\ \A u \in Users : ttl[u] # 0
  /\ sweepTimer' = sweepTimer - 1
  /\ ttl' = [u \in Users |-> IF ttl[u] > 0 THEN ttl[u] - 1 ELSE ttl[u]]
  /\ quiet' = [u \in Users |-> IF quiet[u] < QuietCap THEN quiet[u] + 1 ELSE quiet[u]]
  /\ op' = [NoOp EXCEPT !.name = "tick"]
  /\ out' = <<>>
  /\ UNCHANGED <<sock, connUser, clients, presence, redisQ, sweepCursor, crashed, demotions, timers>>

\* The store drops a key EX seconds after it was set.
Expire(u) ==
  /\ ~crashed
  /\ ttl[u] = 0
  /\ ttl' = [ttl EXCEPT ![u] = Absent]
  /\ op' = [NoOp EXCEPT !.name = "expire", !.userId = u]
  /\ out' = <<>>
  /\ UNCHANGED <<sock, connUser, clients, presence, redisQ, sweepTimer, sweepCursor,
                 crashed, quiet, demotions, timers>>

\* ------------------------------------------------ app.post("/chat/message")
\* A conversation_id is kept as its pieces between underscores ("dm_u1_u2"
\* is <<"dm", "u1", "u2">>) together with mongoose.Types.ObjectId.isValid
\* of it.
StoredId == [valid |-> TRUE, tokens |-> <<"64b7f0c2a1d3e4f5a6b7c8d9">>]
ConvIds ==
  {StoredId}
    \cup {[valid |-> FALSE, tokens |-> <<"dm", a, b>>] : a \in Users, b \in Users}
    \cup {[valid |-> FALSE, tokens |-> <<"general">>]}

ListsOver(S, n) == UNION {[1..k -> S] : k \in 1..n}
NotFound == <<>>
\* What ConversationModel.findById may return: no document, or one whose
\* participants are the user_list its creator posted.
Found == {NotFound} \cup ListsOver(Users, MaxParticipants)

\* lines 173-179: findById is asked only for a valid ObjectId
FindById(cid) == IF cid.valid THEN Found ELSE {NotFound}

\* conversation_id.startsWith("dm_")
StartsWithDm(cid) == Len(cid.tokens) >= 2 /\ cid.tokens[1] = "dm"

\* lines 195-200: the stored list, else the ids a dm_ id spells, else none
Participants(cid, conversation) ==
  IF conversation # NotFound THEN conversation
  ELSE IF StartsWithDm(cid) THEN Tail(cid.tokens)
  ELSE <<>>

\* participants.forEach: clients.get(participantId), and client.send if any
FanoutTargets(participants) ==
  LET Known(p) == Has(clients, p)
      regs == SelectSeq(participants, Known)
  IN  SendTargets([i \in DOMAIN regs |-> [userId |-> regs[i], conn |-> Get(clients, regs[i])]])

NewMessage(targets) ==
  [i \in DOMAIN targets |-> [conn |-> targets[i], type |-> "NEW_MESSAGE", onlineUsers |-> {}]]

\* The handler answers 400 (a field is missing), 404 (a valid ObjectId that
\* names no conversation) or 500 (the database threw) before it sends
\* anything; past those returns it fans the message out.
PostMessage(cid, found, complete, dbOk) ==
  /\ ~crashed
  /\ complete
  /\ ~(cid.valid /\ found = NotFound)
  /\ dbOk
  /\ LET participants == Participants(cid, found)
         targets == FanoutTargets(participants)
     IN  \E k \in ThrowChoices(targets) :
           /\ out' = NewMessage(Delivered(targets, k))
           \* an exception from a send is caught by the route: 500
           /\ op' = [NoOp EXCEPT !.name = "postMessage",
                                 !.status = IF k = 0 THEN 200 ELSE 500,
                                 !.threw = (k # 0)]
  /\ UNCHANGED <<sock, connUser, clients, presence, ttl, redisQ, sweepTimer, sweepCursor,
                 crashed, quiet, demotions, timers>>

\* ------------------------------------------------------------------- Next
Next ==
  \/ \E u \in Users \cup {NoUser} : Connect(u)
  \/ \E c \in Conns, frame \in Frames : Message(c, frame)
  \/ \E c \in Conns : StartClose(c)
  \/ \E c \in Conns : Close(c)
  \/ SweepFire
  \/ RedisReply
  \/ RedisFail
  \/ Tick
  \/ \E u \in Users : Expire(u)
  \/ \E cid \in ConvIds, complete \in BOOLEAN, dbOk \in BOOLEAN :
       \E found \in FindById(cid) : PostMessage(cid, found, complete, dbOk)

Spec == Init /\ [][Next]_vars

\* ============================================== the mock server (mock/server.js)
\* The repository's second server keeps the same kind of registry (clients:
\* userId -> WebSocket) and a Set of online users, held here in `presence`
\* ("ONLINE": a member, "NONE": not a member).  It has no liveness store and
\* no sweep: ttl, redisQ, sweepTimer, sweepCursor, quiet and demotions stay
\* as Init leaves them.  connUser[c] is the handler's `let userId`.
serverOnly == <<ttl, redisQ, sweepTimer, sweepCursor, quiet, demotions>>

MockFrames ==
  {"not json", "null", "{type:HEARTBEAT}", "{type:TYPING}"}
    \cup {RegisterFrame(u) : u \in Users}

\* onlineUsers.add(userId) / onlineUsers.delete(userId)
OnlineAdd(pres, u) == [pres EXCEPT ![u] = "ONLINE"]
OnlineDelete(pres, u) == [pres EXCEPT ![u] = "NONE"]

\* broadcastPresence(): clients.forEach, send if readyState === 1
MockBroadcastPresence(reg, pres, k) ==
  LET done == Delivered(SendTargets(reg), k)
  IN  [i \in DOMAIN done |->
         [conn |-> done[i], type |-> "PRESENCE_UPDATE", onlineUsers |-> Snapshot(pres)]]

\* broadcastMessage(message): every registered client, whatever the conversation
MockBroadcastMessage(reg, k) == NewMessage(Delivered(SendTargets(reg), k))

\* An exception nobody catches ends the process.
MockExit ==
  /\ crashed' = TRUE
  /\ sock' = [c \in Conns |-> IF sock[c] = "NONE" THEN "NONE" ELSE "CLOSED"]
  /\ clients' = <<>>
  /\ presence' = [u \in Users |-> "NONE"]
  /\ timers' = 0

\* wss.on('connection'): u = NoUser is a URL without userId
MockConnect(u) ==
  /\ ~crashed
  /\ \E c \in Conns : sock[c] = "NONE"
  /\ LET c == FreshConn IN
       /\ connUser' = [connUser EXCEPT ![c] = u]
       /\ sock' = [sock EXCEPT ![c] = "OPEN"]
       /\ IF u # NoUser
            THEN /\ clients' = MapSet(clients, u, c)
                 /\ presence' = OnlineAdd(presence, u)
                 /\ timers' = timers + 1
            ELSE UNCHANGED <<clients, presence, timers>>
       /\ op' = [NoOp EXCEPT !.name = "connect", !.conn = c, !.userId = u]
  /\ out' = <<>>
  /\ UNCHANGED <<crashed, serverOnly>>

\* setTimeout(() => broadcastPresence(), 100)
MockTimeout ==
  /\ ~crashed
  /\ timers > 0
  /\ \E k \in ThrowChoices(SendTargets(clients)) :
       /\ out' = MockBroadcastPresence(clients, presence, k)
       /\ op' = [NoOp EXCEPT !.name = "timeout", !.threw = (k # 0)]
       /\ IF k # 0 THEN MockExit
          ELSE /\ timers' = timers - 1
               /\ UNCHANGED <<sock, clients, presence, crashed>>
  /\ UNCHANGED <<connUser, serverOnly>>

\* ws.on('message'): everything runs inside try { } catch { log }
MockMessage(c, frame) ==
  /\ ~crashed
  /\ sock[c] = "OPEN"
  /\ LET r == JSONParse(frame)
         \* message.type of null throws a TypeError, caught like a parse error
         type == IF r.threw \/ r.value.isNull THEN "" ELSE r.value.type
     IN  CASE type = "REGISTER" ->
                LET u == r.value.userId IN
                  /\ connUser' = [connUser EXCEPT ![c] = u]
                  /\ clients' = MapSet(clients, u, c)
                  /\ presence' = OnlineAdd(presence, u)
                  /\ \E k \in ThrowChoices(SendTargets(clients')) :
                       /\ out' = MockBroadcastPresence(clients', presence', k)
                       /\ op' = [NoOp EXCEPT !.name = "message", !.conn = c, !.userId = u,
                                             !.frame = frame, !.threw = (k # 0)]
           [] type = "HEARTBEAT" ->
                /\ presence' = IF connUser[c] # NoUser THEN OnlineAdd(presence, connUser[c])
                               ELSE presence
                /\ out' = <<>>
                /\ op' = [NoOp EXCEPT !.name = "message", !.conn = c, !.userId = connUser[c],
                                      !.frame = frame]
                /\ UNCHANGED <<connUser, clients>>
           [] OTHER ->
                /\ out' = <<>>
                /\ op' = [NoOp EXCEPT !.name = "message", !.conn = c, !.userId = connUser[c],
                                      !.frame = frame]
                /\ UNCHANGED <<connUser, clients, presence>>
  /\ UNCHANGED <<sock, crashed, timers, serverOnly>>

\* ws.on('close')
MockClose(c) ==
  /\ ~crashed
  /\ sock[c] = "CLOSING"
  /\ op' = [NoOp EXCEPT !.name = "close", !.conn = c, !.userId = connUser[c]]
  /\ IF connUser[c] # NoUser
       THEN LET reg == MapDelete(clients, connUser[c])
                pres == OnlineDelete(presence, connUser[c])
            IN  \E k \in ThrowChoices(SendTargets(reg)) :
                  /\ out' = MockBroadcastPresence(reg, pres, k)
                  /\ IF k # 0 THEN MockExit
                     ELSE /\ sock' = [sock EXCEPT ![c] = "CLOSED"]
                          /\ clients' = reg
                          /\ presence' = pres
                          /\ UNCHANGED <<crashed, timers>>
       ELSE /\ sock' = [sock EXCEPT ![c] = "CLOSED"]
            /\ out' = <<>>
            /\ UNCHANGED <<clients, presence, crashed, timers>>
  /\ UNCHANGED <<connUser, serverOnly>>

\* setInterval(..., 10000): if (onlineUsers.size > 0) broadcastPresence()
MockPeriodic ==
  /\ ~crashed
  /\ Snapshot(presence) # {}
  /\ \E k \in ThrowChoices(SendTargets(clients)) :
       /\ out' = MockBroadcastPresence(clients, presence, k)
       /\ op' = [NoOp EXCEPT !.name = "periodic", !.threw = (k # 0)]
       /\ IF k # 0 THEN MockExit
          ELSE UNCHANGED <<sock, clients, presence, crashed, timers>>
  /\ UNCHANGED <<connUser, serverOnly>>

\* app.post('/chat/message'): an exception in the route is answered 500
MockPostMessage ==
  /\ ~crashed
  /\ \E k \in ThrowChoices(SendTargets(clients)) :
       /\ out' = MockBroadcastMessage(clients, k)
       /\ op' = [NoOp EXCEPT !.name = "postMessage",
                             !.status = IF k = 0 THEN 200 ELSE 500,
                             !.threw = (k # 0)]
  /\ UNCHANGED <<sock, connUser, clients, presence, crashed, timers, serverOnly>>

MockNext ==
  \/ \E u \in Users \cup {NoUser} : MockConnect(u)
  \/ MockTimeout
  \/ \E c \in Conns, frame \in MockFrames : MockMessage(c, frame)
  \/ \E c \in Conns : StartClose(c)
  \/ \E c \in Conns : MockClose(c)
  \/ MockPeriodic
  \/ MockPostMessage

MockSpec == Init /\ [][MockNext]_vars

\* ================================================================ claims
Range(f) == {f[i] : i \in DOMAIN f}
ConnsOf(u) == {c \in Conns : connUser[c] = u}
\* Connections are numbered in the order they are accepted.
Latest(u) == CHOOSE c \in ConnsOf(u) : \A d \in ConnsOf(u) : d <= c
\* c is the handle the registry holds for its identity
IsHandle(c) == Has(clients, connUser[c]) /\ Get(clients, connUser[c]) = c
Sends(o, c, type) == Cardinality({i \in DOMAIN o : o[i].conn = c /\ o[i].type = type})
\* The sweep due at this instant has fired and finished.
SweepSettled == sweepTimer > 0 /\ sweepCursor = -1 /\ redisQ = <<>>

\* C1: a NEW_MESSAGE for participants P is sent exactly once to every
\* identity of P whose registered handle is open, and to nobody else.
\* Stated of the deliveries in which no send threw (status 200).
C1_ExactlyOncePerParticipant ==
  [][\A cid \in ConvIds : \A found \in FindById(cid) :
       (PostMessage(cid, found, TRUE, TRUE) /\ op'.status = 200)
         => \A c \in Conns :
              Sends(out', c, "NEW_MESSAGE")
                = IF connUser[c] \in Range(Participants(cid, found))
                     /\ IsHandle(c) /\ Writable(c)
                  THEN 1 ELSE 0]_vars

\* C2: when a send throws during a delivery, every other registered, open
\* target still gets the event: at most the one failing target misses it.
C2_FailureDoesNotAbortFanout ==
  [][\A cid \in ConvIds : \A found \in FindById(cid) :
       (PostMessage(cid, found, TRUE, TRUE) /\ op'.threw)
         => Cardinality({c \in Range(FanoutTargets(Participants(cid, found))) :
                           Sends(out', c, "NEW_MESSAGE") = 0}) <= 1]_vars

\* C3: an identity has at most one registry entry, the entry holds the
\* handle registered last for it, and whatever is sent goes to the handle
\* the registry holds, never to one that was replaced.
C3_LatestHandleWins ==
  ~crashed =>
    /\ \A i, j \in DOMAIN clients : clients[i].userId = clients[j].userId => i = j
    /\ \A u \in Users : Has(clients, u) => Get(clients, u) = Latest(u)
    /\ \A i \in DOMAIN out : IsHandle(out[i].conn)

\* The same at the moment of registration, for either server: when a
\* connection has been registered under an identity (at open, or by a
\* REGISTER frame where the server knows it), the identity has one entry and
\* it holds that connection; whatever is sent goes to a registered handle.
RegistrationReplaces ==
  [][~crashed' =>
       /\ ((op'.name = "connect" /\ op'.userId # NoUser) \/ clients' # clients)
             => \A i, j \in DOMAIN clients' :
                  clients'[i].userId = clients'[j].userId => i = j
       /\ (op'.name = "connect" /\ op'.userId # NoUser)
             => Has(clients', op'.userId) /\ Get(clients', op'.userId) = op'.conn
       /\ (op'.name = "message" /\ clients' # clients)
             => Has(clients', op'.userId) /\ Get(clients', op'.userId) = op'.conn
       /\ \A i \in DOMAIN out' :
            \E j \in DOMAIN clients' : clients'[j].conn = out'[i].conn]_vars

\* C3 witness: an identity registered twice, both sockets still open, and
\* a message delivered to the second handle only.
C3_Witness ==
  \E c1, c2 \in Conns :
    /\ c1 < c2 /\ connUser[c1] = connUser[c2]
    /\ sock[c1] = "OPEN" /\ sock[c2] = "OPEN"
    /\ op.name = "postMessage"
    /\ Sends(out, c2, "NEW_MESSAGE") = 1
    /\ Sends(out, c1, "NEW_MESSAGE") = 0

\* C4: every identity cached ONLINE has a liveness key that has not expired.
C4_OnlineHasLiveKey == \A u \in Users : presence[u] = "ONLINE" => ttl[u] # Absent

\* C5: when the connection-open handler has run for an identity, its
\* liveness key is set and it is in the ONLINE snapshot.
C5_ConnectCountsAsHeartbeat ==
  (op.name = "connect" /\ op.userId # NoUser)
    => ttl[op.userId] # Absent /\ op.userId \in Snapshot(presence)

\* C6: an identity whose connections have all closed, and which has given
\* no liveness signal for the liveness window plus one sweep period, is no
\* longer ONLINE once the sweep of that instant has run.
C6_ClosedIsDemoted ==
  \A u \in Users :
    (/\ ~crashed
     /\ ConnsOf(u) # {}
     /\ \A c \in ConnsOf(u) : sock[c] = "CLOSED"
     /\ quiet[u] >= QuietCap
     /\ SweepSettled)
      => presence[u] # "ONLINE"

\* C7: an identity with an open socket that has given no liveness signal
\* since it connected, the liveness window plus one sweep period ago, is
\* not ONLINE, and exactly one PRESENCE_UPDATE has announced its demotion.
C7_ZombieIsDemotedOnce ==
  \A u \in Users :
    (/\ ~crashed
     /\ \E c \in ConnsOf(u) : sock[c] = "OPEN"
     /\ quiet[u] >= QuietCap
     /\ SweepSettled)
      => presence[u] # "ONLINE" /\ demotions[u] = 1

\* C8: the close handler removes the closing identity's registry entry and
\* nothing else: no cached presence changes, the store is untouched and
\* nothing is sent.
C8_CloseOnlyUnregisters ==
  [][op'.name = "close"
       => /\ presence' = presence
          /\ ttl' = ttl
          /\ out' = <<>>
          /\ clients' = MapDelete(clients, op'.userId)]_vars

\* C8 witness: the connection of an ONLINE identity has closed; the
\* identity is out of the registry and still ONLINE, its key still set.
C8_Witness ==
  /\ op.name = "close"
  /\ ~Has(clients, op.userId)
  /\ presence[op.userId] = "ONLINE"
  /\ ttl[op.userId] # Absent

\* Frames that do not parse, parse to no object, or carry a type that is
\* neither of the protocol's two (REGISTER, HEARTBEAT).
BadFrames ==
  {f \in Frames \cup MockFrames :
     LET r == JSONParse(f)
     IN  r.threw \/ r.value.isNull \/ r.value.type \notin {"REGISTER", "HEARTBEAT"}}

\* C9: a frame that does not parse, or whose type is unknown, changes
\* neither the registry nor any presence nor the store, issues no command,
\* sends nothing, and leaves the connection open and the process running.
C9_BadFrameIsDiscarded ==
  [][(op'.name = "message" /\ op'.frame \in BadFrames)
       => /\ clients' = clients
          /\ presence' = presence
          /\ ttl' = ttl
          /\ redisQ' = redisQ
          /\ sock' = sock
          /\ sock'[op'.conn] = "OPEN"
          /\ out' = <<>>
          /\ ~crashed']_vars

\* C9 witness: a frame that is not JSON has been handled on the registered,
\* open connection of an ONLINE identity.
C9_Witness ==
  /\ op.name = "message"
  /\ op.frame = "not json"
  /\ sock[op.conn] = "OPEN"
  /\ IsHandle(op.conn)
  /\ presence[op.userId] = "ONLINE"

\* C10: a command the store rejects does not take the process down.
C10_StoreFailureIsContained == op.name = "redisFail" => ~crashed

\* C11: a connection opened without an identity is accepted and stays open,
\* outside the registry, until it registers: it is not sent away.  On a
\* REGISTER frame naming an identity it is registered under it, the identity
\* is ONLINE, and the frame's own PRESENCE_UPDATE already reaches it.
C11_AnonymousThenRegister ==
  /\ (op.name = "connect" /\ op.userId = NoUser)
       => /\ op.status # MissingUserId
          /\ op.conn \in Conns /\ sock[op.conn] = "OPEN"
          /\ \A i \in DOMAIN clients : clients[i].conn # op.conn
  /\ (op.name = "message" /\ ~op.threw /\ \E u \in Users : op.frame = RegisterFrame(u))
       => /\ Has(clients, op.userId) /\ Get(clients, op.userId) = op.conn
          /\ presence[op.userId] = "ONLINE"
          /\ Sends(out, op.conn, "PRESENCE_UPDATE") >= 1

\* NEW_MESSAGE is written only by the request that delivers it, and only to
\* handles that were registered and open when that request ran: nothing is
\* kept for an identity that registers later.
NoReplay ==
  [][\A i \in DOMAIN out' :
       out'[i].type = "NEW_MESSAGE"
         => /\ op'.name = "postMessage"
            /\ IsHandle(out'[i].conn)
            /\ Writable(out'[i].conn)]_vars

\* C12: one NEW_MESSAGE event (one delivery) is sent to a connection handle
\* at most once, and only in the delivery itself, never later.
C12_AtMostOnceNoReplay ==
  /\ \A c \in Conns : Sends(out, c, "NEW_MESSAGE") <= 1
  /\ (\E i \in DOMAIN out : out[i].type = "NEW_MESSAGE") => op.name = "postMessage"

\* C13: the HEARTBEAT handler refreshes the identity's key, and broadcasts
\* nothing when the identity was already cached ONLINE.
C13_HeartbeatBroadcastsOnChange ==
  [][op'.name = "heartbeatDone"
       => /\ ttl'[op'.userId] = WindowTicks
          /\ presence[op'.userId] = "ONLINE" => out' = <<>>]_vars

\* C14: a step of the sweep changes a cached presence, or sends anything,
\* only for an identity whose key is absent and whose cached state is ONLINE.
C14_SweepDemotesOnlyOnline ==
  [][(op'.name = "sweepStep" /\ (presence' # presence \/ out' # <<>>))
       => ttl[op'.userId] = Absent /\ presence[op'.userId] = "ONLINE"]_vars

\* c is held by the registry m, under whatever identity
Registered(m, c) == \E j \in DOMAIN m : m[j].conn = c

\* Where no send throws, a broadcast of either server reaches every
\* registered handle whose socket is open, with the snapshot of that moment.
FreshSnapshotToAll ==
  [][(~op'.threw /\ \E i \in DOMAIN out' : out'[i].type = "PRESENCE_UPDATE")
       => /\ \A c \in Conns :
               (Registered(clients', c) /\ sock'[c] = "OPEN")
                 => Sends(out', c, "PRESENCE_UPDATE") >= 1
          /\ \A i \in DOMAIN out' :
               out'[i].type = "PRESENCE_UPDATE"
                 => out'[i].onlineUsers = Snapshot(presence')]_vars

\* C15: every PRESENCE_UPDATE broadcast (after a HEARTBEAT, or by a sweep
\* step that demotes) is sent to every registered handle whose socket is
\* open, and what is sent carries the identities cached ONLINE at that moment.
C15_BroadcastFreshToAll ==
  [][(\/ op'.name = "heartbeatDone"
      \/ op'.name = "sweepStep" /\ SweepDemotes(op'.userId))
       => /\ \A c \in Conns :
               (Registered(clients, c) /\ Writable(c))
                 => Sends(out', c, "PRESENCE_UPDATE") = 1
          /\ \A i \in DOMAIN out' :
               out'[i].onlineUsers
                 = Snapshot([presence EXCEPT ![op'.userId] =
                               IF op'.name = "heartbeatDone" THEN "ONLINE" ELSE "OFFLINE"])]_vars

\* The server with clients that open and close connections and send nothing:
\* what it does on its own.  Time passes, the interval timer fires, keys
\* expire and the store answers, so these steps are not put off forever.
SilentNext ==
  \/ \E u \in Users \cup {NoUser} : Connect(u)
  \/ \E c \in Conns : StartClose(c)
  \/ \E c \in Conns : Close(c)
  \/ SweepFire
  \/ RedisReply
  \/ Tick

LiveSpec ==
  /\ Init /\ [][SilentNext]_vars
  /\ WF_vars(Tick)
  /\ WF_vars(SweepFire)
  /\ WF_vars(RedisReply)

\* A PRESENCE_UPDATE naming u among onlineUsers has just been sent to c.
ToldOnline(c, u) ==
  \E i \in DOMAIN out :
    out[i].conn = c /\ out[i].type = "PRESENCE_UPDATE" /\ u \in out[i].onlineUsers

\* C16: a connection opened with an identity is followed, without anything
\* more from the client, by a PRESENCE_UPDATE that reaches the new connection
\* and names the new identity (unless the connection closes or leaves the
\* registry, the process ends, or the store or a send fails first).
C16_ConnectIsAnnounced ==
  \A u \in Users : \A c \in Conns :
    (op.name = "connect" /\ op.userId = u /\ op.conn = c)
      ~> (\/ ToldOnline(c, u)
          \/ sock[c] # "OPEN"
          \/ ~IsHandle(c)
          \/ crashed
          \/ op.threw)

\* The mock server, whose timers run out.
MockLiveSpec == MockSpec /\ WF_vars(MockTimeout)

\* C17: a connection is in the registry under at most one identity, and a
\* connection that has closed is in it under none.
C17_OneIdentityPerHandle ==
  /\ \A i, j \in DOMAIN clients : clients[i].conn = clients[j].conn => i = j
  /\ \A i \in DOMAIN clients : sock[clients[i].conn] # "CLOSED"

\* ------------------------------------- deriving participants from a dm_ id
\* Strings as sequences of characters, so that what startsWith, replace and
\* split do to them can be computed.
MaxIdLen == 2
Alphabet == {"u", "1", "_"}
UserIds == UNION {[1..n -> Alphabet] : n \in 1..MaxIdLen}
DmPrefix == <<"d", "m", "_">>

\* s.startsWith(p)
startsWith(s, p) == Len(s) >= Len(p) /\ SubSeq(s, 1, Len(p)) = p

\* s.indexOf(p), counted from 1; 0 if p does not occur
indexOf(s, p) ==
  LET hits == {i \in 1..(Len(s) - Len(p) + 1) : SubSeq(s, i, i + Len(p) - 1) = p}
  IN  IF hits = {} THEN 0 ELSE CHOOSE i \in hits : \A j \in hits : i <= j

\* s.replace(p, r) with a string pattern: the first occurrence only
replace(s, p, r) ==
  LET i == indexOf(s, p)
  IN  IF i = 0 THEN s
      ELSE SubSeq(s, 1, i - 1) \o r \o SubSeq(s, i + Len(p), Len(s))

\* s.split(sep): the pieces between separators, empty pieces included
RECURSIVE split(_, _)
split(s, sep) ==
  LET i == indexOf(s, sep)
  IN  IF i = 0 THEN <<s>>
      ELSE <<SubSeq(s, 1, i - 1)>> \o split(SubSeq(s, i + Len(sep), Len(s)), sep)

\* lines 195-200 with no stored conversation
DerivedParticipants(cid) ==
  IF startsWith(cid, DmPrefix) THEN split(replace(cid, DmPrefix, <<>>), <<"_">>)
  ELSE <<>>

\* The composite id of the direct conversation of a and b: dm_<a>_<b>
DmId(a, b) == DmPrefix \o a \o <<"_">> \o b

\* The request names a conversation that is not stored; the handler derives
\* the participants from the id.
ResolveParticipants(cid) ==
  /\ op' = [name |-> "participants", conn |-> 0, userId |-> NoUser, frame |-> cid,
            status |-> 0, threw |-> FALSE, participants |-> DerivedParticipants(cid)]
  /\ out' = <<>>
  /\ UNCHANGED <<sock, connUser, clients, presence, ttl, redisQ, sweepTimer, sweepCursor,
                 crashed, quiet, demotions, timers>>

DmNext ==
  \/ \E a \in UserIds, b \in UserIds : ResolveParticipants(DmId(a, b))
  \/ \E cid \in UserIds : ResolveParticipants(cid)

DmSpec == Init /\ [][DmNext]_vars

\* C18: for the composite id of any two user ids a and b the participants
\* derived are exactly a and b; for an id that is not composite, none.
C18_DmIdDecodesToItsPair ==
  op.name = "participants"
    => /\ \A a \in UserIds, b \in UserIds :
            op.frame = DmId(a, b) => op.participants = <<a, b>>
       /\ ~startsWith(op.frame, DmPrefix) => op.participants = <<>>

\* The same for user ids without an underscore: there the id decodes to its pair.
PlainIds == {a \in UserIds : \A i \in DOMAIN a : a[i] # "_"}
DmIdDecodesPlainIds ==
  op.name = "participants"
    => /\ \A a \in PlainIds, b \in PlainIds :
            op.frame = DmId(a, b) => op.participants = <<a, b>>
       /\ ~startsWith(op.frame, DmPrefix) => op.participants = <<>>

\* C19: while the connection registered last for an identity is open, the
\* registry holds an entry for the identity, and it is that connection.
C19_SupersededCloseKeepsNewer ==
  \A u \in Users :
    (~crashed /\ ConnsOf(u) # {} /\ sock[Latest(u)] = "OPEN")
      => Has(clients, u) /\ Get(clients, u) = Latest(u)

\* C20: whatever the interleaving of the sweep with a HEARTBEAT handler of the
\* same identity, the sweep does not mark the identity OFFLINE, nor broadcast
\* it as offline, at a moment when its key exists in the store.
C20_SweepNeverDemotesLiveKey ==
  [][(op'.name = "sweepStep" /\ ~crashed'
        /\ presence[op'.userId] # "OFFLINE" /\ presence'[op'.userId] = "OFFLINE")
       => ttl[op'.userId] = Absent]_vars

\* Once no command is in flight, an identity whose key exists is cached
\* ONLINE: the second half of C20, which the code keeps.
SettledKeyIsOnline ==
  (~crashed /\ redisQ = <<>>)
    => \A u \in Users : ttl[u] # Absent => presence[u] = "ONLINE"

====
